---- MODULE Spec2Model ----
(***************************************************************************)
(* A model of src/lambda_function.py: the event validation, the system     *)
(* information collector, the health check, the lazily filled client       *)
(* cache and lambda_handler itself.                                        *)
(*                                                                         *)
(* Python values are tagged records: None, str, int, bool, dict and a set  *)
(* object (a value json.dumps cannot serialize).  A dict is a function     *)
(* from its (string) keys to values.  A str produced by json.dumps carries *)
(* the JSON document it spells in the field "json".                        *)
(***************************************************************************)
EXTENDS Integers, Sequences, FiniteSets, TLC

(***************************************************************************)
(* Python values                                                           *)
(***************************************************************************)
None == [t |-> "none"]
Str(s) == [t |-> "str", s |-> s]
PyInt(n) == [t |-> "int", n |-> n]
Bool(b) == [t |-> "bool", b |-> b]
Dict(d) == [t |-> "dict", d |-> d]
PySet == [t |-> "set"]
EmptyDict == Dict([k \in {} |-> None])

IsStr(v) == v.t = "str"
IsDict(v) == v.t = "dict"

\* The result of a call: a returned value or a raised exception.
Ok(v) == [ok |-> TRUE, val |-> v]
Raise(type, msg) == [ok |-> FALSE, type |-> type, msg |-> msg]

(***************************************************************************)
(* json.dumps / json.loads                                                 *)
(***************************************************************************)
RECURSIVE Serializable(_)
Serializable(v) ==
    CASE v.t = "dict" -> \A k \in DOMAIN v.d : Serializable(v.d[k])
      [] v.t = "set" -> FALSE
      [] OTHER -> TRUE

RECURSIVE Encode(_)
Encode(v) ==
    CASE v.t = "none" -> [j |-> "null"]
      [] v.t = "bool" -> [j |-> IF v.b THEN "true" ELSE "false"]
      [] v.t = "int" -> [j |-> "number", n |-> v.n]
      [] v.t = "str" -> [j |-> "string", s |-> v.s]
      [] v.t = "dict" -> [j |-> "object", m |-> [k \in DOMAIN v.d |-> Encode(v.d[k])]]

JsonDumps(v) ==
    IF Serializable(v)
    THEN Ok([t |-> "str", s |-> "<json>", json |-> Encode(v)])
    ELSE Raise("TypeError", "Object of type set is not JSON serializable")

RECURSIVE Decode(_)
Decode(j) ==
    CASE j.j = "null" -> None
      [] j.j = "true" -> Bool(TRUE)
      [] j.j = "false" -> Bool(FALSE)
      [] j.j = "number" -> PyInt(j.n)
      [] j.j = "string" -> Str(j.s)
      [] j.j = "object" -> Dict([k \in DOMAIN j.m |-> Decode(j.m[k])])

IsJsonText(v) == v.t = "str" /\ "json" \in DOMAIN v
JsonLoads(text) == Decode(text.json)

\* str(x) as an f-string renders it.
Format(v) ==
    CASE v.t = "none" -> "None"
      [] v.t = "str" -> v.s
      [] v.t = "int" -> ToString(v.n)
      [] OTHER -> "<object>"

(***************************************************************************)
(* Module level                                                            *)
(***************************************************************************)
Version == Str("1.1.0")

\* The process environment read by get_system_info: AWS_REGION is set, the
\* other two variables are not.
Environ == [k \in {"AWS_REGION"} |-> "eu-west-1"]
EnvironGet(key, default) == IF key \in DOMAIN Environ THEN Str(Environ[key]) ELSE Str(default)

S3Handle == [t |-> "client", service |-> "s3"]
SsmHandle == [t |-> "client", service |-> "ssm"]

(***************************************************************************)
(* LambdaEvent: pydantic validation of the event                           *)
(***************************************************************************)
OptionalStrOk(event, key) ==
    key \notin DOMAIN event \/ event[key] = None \/ IsStr(event[key])

OptionalDictOk(event, key) ==
    key \notin DOMAIN event \/ event[key] = None \/ IsDict(event[key])

Field(event, key, default) == IF key \in DOMAIN event THEN event[key] ELSE default

BadFields(event) ==
    {k \in {"name", "operation"} : ~OptionalStrOk(event, k)}
        \cup {k \in {"metadata"} : ~OptionalDictOk(event, k)}

LambdaEvent(event) ==
    IF BadFields(event) = {}
    THEN Ok([name |-> Field(event, "name", Str("World")),
             operation |-> Field(event, "operation", Str("greeting")),
             metadata |-> Field(event, "metadata", EmptyDict)])
    ELSE Raise("ValidationError",
               ToString(Cardinality(BadFields(event)))
                   \o " validation error for LambdaEvent")

(***************************************************************************)
(* LambdaResponse(statusCode=..., body=...).model_dump()                   *)
(***************************************************************************)
DefaultHeaders ==
    [k \in {"Content-Type", "Access-Control-Allow-Origin"} |->
        IF k = "Content-Type" THEN "application/json" ELSE "*"]

LambdaResponse(statusCode, body) ==
    [statusCode |-> statusCode, headers |-> DefaultHeaders, body |-> body]

(***************************************************************************)
(* What the outside world answers during one invocation.  A facet the      *)
(* invocation never consults is "n/a".                                     *)
(*   uuid_req, uuid_sys  the strings uuid.uuid4() yields                   *)
(*   now                 the clock reading of datetime.now                 *)
(*   sysinfo             "ok", or "raise" when a call inside               *)
(*                       get_system_info's try block throws                *)
(*   s3_init, ssm_init   boto3.client(...): "ok" or "raise"                *)
(*   list_buckets        s3.list_buckets(): "ok" or "raise"                *)
(*   http                requests.get(...): a response with a status code, *)
(*                       a requests.RequestException (timeout, connection  *)
(*                       error) or another exception                       *)
(***************************************************************************)
NA == "n/a"
HttpResponse(code) == [r |-> "response", status_code |-> code]
HttpRequestException == [r |-> "RequestException", status_code |-> 0]
HttpOtherException == [r |-> "Exception", status_code |-> 0]
HttpNA == [r |-> NA, status_code |-> 0]

(***************************************************************************)
(* get_aws_clients: fills the module globals s3_client and ssm_client on   *)
(* first use.  The result carries the globals as the call leaves them.     *)
(***************************************************************************)
NewClient(handle, outcome) ==
    IF outcome = "raise"
    THEN Raise("NoRegionError", "You must specify a region.")
    ELSE Ok(handle)

get_aws_clients(s3c, ssmc, env) ==
    LET s3new == IF s3c = None THEN NewClient(S3Handle, env.s3_init) ELSE Ok(s3c)
        calls1 == IF s3c = None THEN <<"boto3.client:s3">> ELSE <<>>
    IN  IF ~s3new.ok
        THEN [ok |-> FALSE, exc |-> s3new, s3_client |-> s3c, ssm_client |-> ssmc,
              calls |-> calls1]
        ELSE LET ssmnew == IF ssmc = None THEN NewClient(SsmHandle, env.ssm_init)
                           ELSE Ok(ssmc)
                 calls2 == IF ssmc = None THEN calls1 \o <<"boto3.client:ssm">>
                           ELSE calls1
             IN  IF ~ssmnew.ok
                 THEN [ok |-> FALSE, exc |-> ssmnew, s3_client |-> s3new.val,
                       ssm_client |-> ssmc, calls |-> calls2]
                 ELSE [ok |-> TRUE, s3 |-> s3new.val, ssm |-> ssmnew.val,
                       s3_client |-> s3new.val, ssm_client |-> ssmnew.val,
                       calls |-> calls2]

(***************************************************************************)
(* get_system_info                                                         *)
(***************************************************************************)
Timestamp(now) == Str("T" \o ToString(now))

get_system_info(env) ==
    IF env.sysinfo = "raise"
    THEN [ret |-> Dict([error |-> Str("Failed to retrieve system information")]),
          log |-> <<[event |-> "Failed to get system info", level |-> "warning"]>>]
    ELSE [ret |-> Dict([timestamp_utc |-> Timestamp(env.now),
                        timestamp_local |-> Timestamp(env.now),
                        python_version |-> Str("Python 3.9"),
                        aws_region |-> EnvironGet("AWS_REGION", "unknown"),
                        lambda_runtime |-> EnvironGet("AWS_EXECUTION_ENV", "unknown"),
                        memory_size |->
                            EnvironGet("AWS_LAMBDA_FUNCTION_MEMORY_SIZE", "unknown"),
                        request_id |-> Str(env.uuid_sys)]),
          log |-> <<>>]

(***************************************************************************)
(* perform_health_check                                                    *)
(***************************************************************************)
\* The S3 check: the status recorded under "aws_s3" and whether the check
\* leaves health_status["healthy"] alone.
S3Check(outcome) ==
    IF outcome = "ok"
    THEN [status |-> Str("healthy"), keeps_healthy |-> TRUE]
    ELSE [status |-> Str("error: " \o "An error occurred (AccessDenied)"),
          keeps_healthy |-> FALSE]

\* The external connectivity check: the status recorded under
\* "external_connectivity", or the exception that leaves the inner try.
ExternalCheck(http) ==
    CASE http.r = "response" ->
            IF http.status_code = 200
            THEN Ok([status |-> Str("healthy"), keeps_healthy |-> TRUE])
            ELSE Ok([status |-> Str("http_error: " \o ToString(http.status_code)),
                     keeps_healthy |-> TRUE])
      [] http.r = "RequestException" ->
            Ok([status |-> Str("network_error: " \o "Read timed out."),
                keeps_healthy |-> TRUE])
      [] OTHER -> Raise("Exception", "unexpected failure in requests.get")

HealthStatus(healthy, checks) ==
    Dict([healthy |-> Bool(healthy), checks |-> Dict(checks)])

\* HealthStatusError without line 115: the outer except records the error but
\* forgets to clear healthy.  C4's formula tells the two apart.
HealthStatusErrorNoFlip(checks, msg) ==
    Dict([healthy |-> Bool(TRUE), checks |-> Dict(checks), error |-> Str(msg)])

HealthStatusError(checks, msg) ==
    Dict([healthy |-> Bool(FALSE), checks |-> Dict(checks), error |-> Str(msg)])

HealthFailedLog == <<[event |-> "Health check failed", level |-> "error"]>>

\* The body of the outer try once get_aws_clients has returned or raised:
\* both checks in order, or the outer except.
HealthCheckWith(clients, env) ==
    IF ~clients.ok
    THEN [ret |-> HealthStatusError([k \in {} |-> None], clients.exc.msg),
          s3_client |-> clients.s3_client, ssm_client |-> clients.ssm_client,
          log |-> HealthFailedLog, calls |-> clients.calls]
    ELSE LET s3chk == S3Check(env.list_buckets)
             checks1 == "aws_s3" :> s3chk.status
             ext == ExternalCheck(env.http)
             calls == clients.calls \o <<"s3.list_buckets", "requests.get">>
         IN  IF ~ext.ok
             THEN [ret |-> HealthStatusError(checks1, ext.msg),
                   s3_client |-> clients.s3_client,
                   ssm_client |-> clients.ssm_client,
                   log |-> HealthFailedLog, calls |-> calls]
             ELSE [ret |-> HealthStatus(
                              s3chk.keeps_healthy /\ ext.val.keeps_healthy,
                              checks1 @@ ("external_connectivity" :> ext.val.status)),
                   s3_client |-> clients.s3_client,
                   ssm_client |-> clients.ssm_client,
                   log |-> <<>>, calls |-> calls]

perform_health_check(s3c, ssmc, env) ==
    HealthCheckWith(get_aws_clients(s3c, ssmc, env), env)

(***************************************************************************)
(* lambda_handler                                                          *)
(***************************************************************************)
\* RequestId with the fixed default "local-test" instead of a generated id
\* when there is no context.  C5's formula tells the two apart.
RequestIdLocalTest(context, env) ==
    IF context # None THEN context.aws_request_id ELSE Str("local-test")

RequestId(context, env) ==
    IF context # None THEN context.aws_request_id ELSE Str(env.uuid_req)

StartLog(event, context, request_id) ==
    [event |-> "Lambda invocation started", level |-> "info",
     request_id |-> request_id,
     event_keys |-> IF DOMAIN event # {} THEN DOMAIN event ELSE {},
     function_name |-> IF context # None THEN context.function_name
                       ELSE Str("local-test")]

CompletedLog(request_id) ==
    [event |-> "Lambda invocation completed successfully", level |-> "info",
     request_id |-> request_id]

FailedLog(request_id, exc) ==
    [event |-> "Lambda invocation failed", level |-> "error",
     request_id |-> request_id, error |-> exc.msg, error_type |-> exc.type]

\* The response body of the health branch.
HealthBody(health, system) ==
    Dict([message |-> Str("Health check completed"),
          health |-> health,
          system |-> system,
          version |-> Version])

\* GreetingBody with the two request ids confused: the body carries the id
\* get_system_info generated.  C7's formula tells the two apart.
GreetingBodySystemId(validated_event, context, request_id, system) ==
    Dict([message |-> Str("Hello, " \o Format(validated_event.name) \o "!"),
          operation |-> validated_event.operation,
          system |-> system,
          version |-> Version,
          function_name |-> IF context # None THEN context.function_name
                            ELSE Str("lambda-test-python"),
          request_id |-> IF "request_id" \in DOMAIN system.d
                         THEN system.d.request_id ELSE request_id,
          metadata |-> validated_event.metadata])

\* The response body of the greeting branch.
GreetingBody(validated_event, context, request_id, system) ==
    Dict([message |-> Str("Hello, " \o Format(validated_event.name) \o "!"),
          operation |-> validated_event.operation,
          system |-> system,
          version |-> Version,
          function_name |-> IF context # None THEN context.function_name
                            ELSE Str("lambda-test-python"),
          request_id |-> request_id,
          metadata |-> validated_event.metadata])

\* The branch for operation "health", given what perform_health_check returned.
HealthBranch(h, system_info) ==
    [response_body |-> HealthBody(h.ret, system_info.ret),
     s3_client |-> h.s3_client, ssm_client |-> h.ssm_client,
     log |-> system_info.log \o h.log,
     calls |-> <<"get_system_info", "perform_health_check">> \o h.calls,
     health_status |-> h.ret]

\* The branch for every other operation.
GreetingBranch(validated_event, context, request_id, s3c, ssmc, system_info) ==
    [response_body |->
         GreetingBody(validated_event, context, request_id, system_info.ret),
     s3_client |-> s3c, ssm_client |-> ssmc,
     log |-> system_info.log,
     calls |-> <<"get_system_info">>,
     health_status |-> None]

\* Dispatch with the branches the other way round: only "greeting" is greeted
\* and every other operation runs the health check.  C8's formula tells the
\* two apart.
DispatchGreetingOnly(validated_event, context, request_id, s3c, ssmc, env) ==
    IF validated_event.operation # Str("greeting")
    THEN HealthBranch(perform_health_check(s3c, ssmc, env), get_system_info(env))
    ELSE GreetingBranch(validated_event, context, request_id, s3c, ssmc,
                        get_system_info(env))

\* The body of the try block after validation: system information, then the
\* dispatch on the operation.
Dispatch(validated_event, context, request_id, s3c, ssmc, env) ==
    IF validated_event.operation = Str("health")
    THEN HealthBranch(perform_health_check(s3c, ssmc, env), get_system_info(env))
    ELSE GreetingBranch(validated_event, context, request_id, s3c, ssmc,
                        get_system_info(env))

\* ExceptBranch that logs the failure and raises it again.  C1's formula
\* tells the two apart.
ExceptBranchReraise(exc, request_id) ==
    [response |-> None, raised |-> exc, log |-> <<FailedLog(request_id, exc)>>]

\* The except branch: the failure is logged and the error envelope returned.
\* A failure of json.dumps here would leave the handler as an exception.
ExceptBranch(exc, request_id) ==
    LET dumped == JsonDumps(Dict([error |-> Str("Internal server error"),
                                  message |-> Str(exc.msg),
                                  request_id |-> request_id,
                                  version |-> Version]))
    IN  IF dumped.ok
        THEN [response |-> LambdaResponse(500, dumped.val), raised |-> None,
              log |-> <<FailedLog(request_id, exc)>>]
        ELSE [response |-> None, raised |-> dumped,
              log |-> <<FailedLog(request_id, exc)>>]

\* What an invocation that ended in the except branch leaves behind.
Failed(x, s3c, ssmc, log, calls, validated_event, health_status) ==
    [response |-> x.response, raised |-> x.raised,
     s3_client |-> s3c, ssm_client |-> ssmc,
     log |-> log \o x.log, calls |-> calls,
     validated_event |-> validated_event, health_status |-> health_status]

\* The end of the try block: json.dumps of the response body, then the 200
\* envelope, or the except branch when json.dumps raised.
Serialize(d, dumped, request_id, validated_event, log, calls) ==
    IF ~dumped.ok
    THEN Failed(ExceptBranch(dumped, request_id), d.s3_client, d.ssm_client,
                log \o d.log, calls \o d.calls, validated_event, d.health_status)
    ELSE [response |-> LambdaResponse(200, dumped.val), raised |-> None,
          s3_client |-> d.s3_client, ssm_client |-> d.ssm_client,
          log |-> log \o d.log \o <<CompletedLog(request_id)>>,
          calls |-> calls \o d.calls,
          validated_event |-> validated_event,
          health_status |-> d.health_status]

Respond200(d, request_id, validated_event, log, calls) ==
    Serialize(d, JsonDumps(d.response_body), request_id, validated_event, log, calls)

\* The try block, given the outcome of the validation.
TryBlock(validated, context, request_id, s3c, ssmc, env, log, calls) ==
    IF ~validated.ok
    THEN Failed(ExceptBranch(validated, request_id), s3c, ssmc, log, calls, None, None)
    ELSE Respond200(Dispatch(validated.val, context, request_id, s3c, ssmc, env),
                    request_id, validated.val, log, calls)

\* The handler from the start log entry on, given the request id.
HandlerWith(event, context, request_id, s3c, ssmc, env) ==
    TryBlock(LambdaEvent(event), context, request_id, s3c, ssmc, env,
             <<StartLog(event, context, request_id)>>,
             IF context # None THEN <<>> ELSE <<"uuid.uuid4">>)

\* One invocation.  The result is the returned envelope (or the exception that
\* left the handler) together with what the invocation left behind: the
\* client globals, the log entries it wrote, the calls it made, the validated
\* request and the health check's result.
lambda_handler(event, context, s3c, ssmc, env) ==
    HandlerWith(event, context, RequestId(context, env), s3c, ssmc, env)

(***************************************************************************)
(* Inputs                                                                  *)
(***************************************************************************)
NumUuids == 2
MaxClock == 2

UuidPool == {"uuid-" \o ToString(i) : i \in 1..NumUuids}
Clock == 1..MaxClock

EventKeys == {"name", "operation", "metadata", "source"}

FieldValues(k) ==
    CASE k = "name" -> {None, Str("Alice"), PyInt(42)}
      [] k = "operation" -> {None, Str("health"), Str("status"), PyInt(7)}
      [] k = "metadata" -> {None, Dict("k" :> Str("v")), Dict("k" :> PySet), PyInt(5)}
      [] k = "source" -> {Str("unittest")}

\* A key the event does not hold.
Absent == [t |-> "absent"]

MakeEvent(name, operation, metadata, source) ==
    LET all == [name |-> name, operation |-> operation, metadata |-> metadata,
                source |-> source]
    IN  [k \in {key \in EventKeys : all[key] # Absent} |-> all[k]]

\* Every event: any subset of the keys, each present key with one of its values.
Events ==
    {MakeEvent(n, o, m, x) : n \in FieldValues("name") \cup {Absent},
                             o \in FieldValues("operation") \cup {Absent},
                             m \in FieldValues("metadata") \cup {Absent},
                             x \in FieldValues("source") \cup {Absent}}

\* The context is absent, or an object with aws_request_id and function_name.
LambdaContext == [aws_request_id |-> Str("req-1"), function_name |-> Str("my-function")]
Contexts == {None, LambdaContext}

\* The answers one invocation can get from uuid.uuid4 and inside
\* get_system_info: only the facets it consults vary.
SysAnswers(event, context) ==
    LET v == LambdaEvent(event)
        all == [uuid_req : IF context = None THEN UuidPool ELSE {NA},
                uuid_sys : IF v.ok THEN UuidPool \cup {NA} ELSE {NA},
                now : IF v.ok THEN Clock \cup {0} ELSE {0},
                sysinfo : IF v.ok THEN {"ok", "raise"} ELSE {NA}]
    IN  {a \in all :
            /\ (a.uuid_sys # NA) = (a.sysinfo = "ok")
            /\ a.uuid_sys # NA => a.uuid_sys # a.uuid_req
            /\ (a.now # 0) = (a.sysinfo = "ok")}

HttpOutcomes ==
    {HttpResponse(200), HttpResponse(503), HttpRequestException, HttpOtherException}

\* The answers its health check can get, given the client globals it finds.
ProbeAnswers(event, s3c, ssmc) ==
    LET v == LambdaEvent(event)
        health == v.ok /\ v.val.operation = Str("health")
        all == [s3_init : IF health /\ s3c = None THEN {"ok", "raise"} ELSE {NA},
                ssm_init : IF health /\ ssmc = None THEN {"ok", "raise", NA} ELSE {NA},
                list_buckets : IF health THEN {"ok", "raise", NA} ELSE {NA},
                http : IF health THEN HttpOutcomes \cup {HttpNA} ELSE {HttpNA}]
    IN  {b \in all :
            LET gets3 == health /\ b.s3_init # "raise"
                checks == gets3 /\ b.ssm_init # "raise"
            IN  /\ (b.ssm_init # NA) = (gets3 /\ ssmc = None)
                /\ (b.list_buckets # NA) = checks
                /\ (b.http # HttpNA) = checks}

Envs(event, context, s3c, ssmc) ==
    {a @@ b : a \in SysAnswers(event, context), b \in ProbeAnswers(event, s3c, ssmc)}

(***************************************************************************)
(* State                                                                   *)
(*   s3_client, ssm_client  the module globals                             *)
(*   phase                  "idle" before the first invocation, "running"  *)
(*                          once an invocation has been delivered,         *)
(*                          "returned" once the handler has returned       *)
(*   event, context         the arguments of the current invocation        *)
(*   env                    what the outside world answered during it      *)
(*   response               the envelope it returned                       *)
(*   raised                 the exception that left the handler instead,   *)
(*                          None when it returned                          *)
(*   log, calls             the log entries it wrote, the calls it made    *)
(*   validated_event        its LambdaEvent, None when validation failed   *)
(*   health_status          what perform_health_check returned, None when  *)
(*                          it was not called                              *)
(*   inv                    the invocations that run concurrently in one   *)
(*                          process: for each its position in the code and *)
(*                          its local variables (see Concurrent            *)
(*                          invocations below)                             *)
(***************************************************************************)
VARIABLES s3_client, ssm_client, phase, event, context, env, response, raised, log,
          calls, validated_event, health_status, inv

vars == <<s3_client, ssm_client, phase, event, context, env, response, raised, log,
          calls, validated_event, health_status, inv>>

\* The variables that record the one-at-a-time invocation.
sequential == <<phase, event, context, env, response, raised, log, calls,
                validated_event, health_status>>

\* Two invocations share the process.
Invocations == {1, 2}

NoEnv == [uuid_req |-> NA, uuid_sys |-> NA, now |-> 0, sysinfo |-> NA, s3_init |-> NA,
          ssm_init |-> NA, list_buckets |-> NA, http |-> HttpNA]

\* The locals of an invocation that is not running.
Idle == [pc |-> "idle", event |-> [k \in {} |-> None], context |-> None,
         answers |-> NoEnv, s3 |-> None, ssm |-> None, health |-> None,
         response |-> None]

Init ==
    /\ s3_client = None
    /\ ssm_client = None
    /\ phase = "idle"
    /\ event = [k \in {} |-> None]
    /\ context = None
    /\ env = NoEnv
    /\ response = None
    /\ raised = None
    /\ log = <<>>
    /\ calls = <<>>
    /\ validated_event = None
    /\ health_status = None
    /\ inv = [i \in Invocations |-> Idle]

\* The platform delivers an invocation: lambda_handler(event, context) is
\* entered with nothing of the previous invocation left but the globals.
Invoke ==
    /\ phase \in {"idle", "returned"}
    /\ \E e \in Events, c \in Contexts :
          /\ event' = e
          /\ context' = c
    /\ phase' = "running"
    /\ env' = NoEnv
    /\ response' = None
    /\ raised' = None
    /\ log' = <<>>
    /\ calls' = <<>>
    /\ validated_event' = None
    /\ health_status' = None
    /\ UNCHANGED <<s3_client, ssm_client, inv>>

\* What the invocation leaves in the state when lambda_handler is done.
Returns(r) ==
    /\ response' = r.response
    /\ raised' = r.raised
    /\ s3_client' = r.s3_client
    /\ ssm_client' = r.ssm_client
    /\ log' = r.log
    /\ calls' = r.calls
    /\ validated_event' = r.validated_event
    /\ health_status' = r.health_status

\* lambda_handler runs from its first line to its return.
Handle ==
    /\ phase = "running"
    /\ \E x \in Envs(event, context, s3_client, ssm_client) :
          /\ env' = x
          /\ Returns(lambda_handler(event, context, s3_client, ssm_client, x))
    /\ phase' = "returned"
    /\ UNCHANGED <<event, context, inv>>

Next == Invoke \/ Handle

Spec == Init /\ [][Next]_vars

(***************************************************************************)
(* Concurrent invocations                                                  *)
(*                                                                         *)
(* Several invocations run lambda_handler in one process and share the     *)
(* module globals s3_client and ssm_client.  Every read and every write of *)
(* a global is a step of its own (the statements of get_aws_clients); the  *)
(* statements between them touch only the invocation's locals and are      *)
(* taken together.  inv[i].answers records what the outside world answered *)
(* invocation i.                                                           *)
(***************************************************************************)
\* The invocations that run concurrently: a health request with a context
\* (the only kind that touches the globals), a greeting without a context
\* and an event the validation rejects.
ConcInputs ==
    {[event |-> "operation" :> Str("health"), context |-> LambdaContext],
     [event |-> [k \in {} |-> None], context |-> None],
     [event |-> "metadata" :> PyInt(5), context |-> LambdaContext]}

Goto(i, pc) == inv' = [inv EXCEPT ![i].pc = pc]

\* lambda_handler is entered; a validated "health" request reaches
\* perform_health_check and with it get_aws_clients.
Enter(i) ==
    /\ inv[i].pc = "idle"
    /\ \E in \in ConcInputs :
          LET v == LambdaEvent(in.event)
          IN  inv' = [inv EXCEPT ![i] =
                         [Idle EXCEPT !.event = in.event, !.context = in.context,
                                      !.pc = IF v.ok /\ v.val.operation = Str("health")
                                             THEN "s3_test" ELSE "respond"]]
    /\ UNCHANGED <<s3_client, ssm_client, sequential>>

\* if s3_client is None:
S3Test(i) ==
    /\ inv[i].pc = "s3_test"
    /\ Goto(i, IF s3_client = None THEN "s3_new" ELSE "ssm_test")
    /\ UNCHANGED <<s3_client, ssm_client, sequential>>

\* s3_client = boto3.client('s3'); an exception leaves get_aws_clients and is
\* caught by perform_health_check's outer except.
S3New(i) ==
    /\ inv[i].pc = "s3_new"
    /\ \E o \in {"ok", "raise"} :
          LET c == NewClient(S3Handle, o)
          IN  IF c.ok
              THEN /\ s3_client' = c.val
                   /\ inv' = [inv EXCEPT ![i].pc = "ssm_test", ![i].answers.s3_init = o]
              ELSE /\ s3_client' = s3_client
                   /\ inv' = [inv EXCEPT ![i].pc = "respond", ![i].answers.s3_init = o,
                                         ![i].health =
                                             HealthStatusError([k \in {} |-> None], c.msg)]
    /\ UNCHANGED <<ssm_client, sequential>>

\* if ssm_client is None:
SsmTest(i) ==
    /\ inv[i].pc = "ssm_test"
    /\ Goto(i, IF ssm_client = None THEN "ssm_new" ELSE "gac_return")
    /\ UNCHANGED <<s3_client, ssm_client, sequential>>

\* ssm_client = boto3.client('ssm')
SsmNew(i) ==
    /\ inv[i].pc = "ssm_new"
    /\ \E o \in {"ok", "raise"} :
          LET c == NewClient(SsmHandle, o)
          IN  IF c.ok
              THEN /\ ssm_client' = c.val
                   /\ inv' = [inv EXCEPT ![i].pc = "gac_return",
                                         ![i].answers.ssm_init = o]
              ELSE /\ ssm_client' = ssm_client
                   /\ inv' = [inv EXCEPT ![i].pc = "respond", ![i].answers.ssm_init = o,
                                         ![i].health =
                                             HealthStatusError([k \in {} |-> None], c.msg)]
    /\ UNCHANGED <<s3_client, sequential>>

\* GacReturn that hands back only what this call constructed itself, so a
\* call that found a global already filled hands back None.  C10's formula
\* tells the two apart.
GacReturnOwn(i) ==
    /\ inv[i].pc = "gac_return"
    /\ inv' = [inv EXCEPT ![i].pc = "checks",
                          ![i].s3 = IF inv[i].answers.s3_init = "ok"
                                    THEN S3Handle ELSE None,
                          ![i].ssm = IF inv[i].answers.ssm_init = "ok"
                                     THEN SsmHandle ELSE None]
    /\ UNCHANGED <<s3_client, ssm_client, sequential>>

\* return s3_client, ssm_client: the globals are read as they are now.
GacReturn(i) ==
    /\ inv[i].pc = "gac_return"
    /\ inv' = [inv EXCEPT ![i].pc = "checks", ![i].s3 = s3_client, ![i].ssm = ssm_client]
    /\ UNCHANGED <<s3_client, ssm_client, sequential>>

\* The two checks of perform_health_check, on the handles get_aws_clients
\* returned.
RunChecks(i) ==
    /\ inv[i].pc = "checks"
    /\ \E l \in {"ok", "raise"}, h \in HttpOutcomes :
          LET s3chk == S3Check(l)
              checks1 == "aws_s3" :> s3chk.status
              ext == ExternalCheck(h)
              result == IF ext.ok
                        THEN HealthStatus(s3chk.keeps_healthy /\ ext.val.keeps_healthy,
                                 checks1 @@ ("external_connectivity" :> ext.val.status))
                        ELSE HealthStatusError(checks1, ext.msg)
          IN  inv' = [inv EXCEPT ![i].pc = "respond", ![i].answers.list_buckets = l,
                                 ![i].answers.http = h, ![i].health = result]
    /\ UNCHANGED <<s3_client, ssm_client, sequential>>

\* Everything else lambda_handler does: the request id, the validation, the
\* system information, the response body and the envelope.
Respond(i) ==
    /\ inv[i].pc = "respond"
    /\ \E a \in SysAnswers(inv[i].event, inv[i].context) :
          LET x == a @@ inv[i].answers
              request_id == RequestId(inv[i].context, x)
              validated == LambdaEvent(inv[i].event)
              system_info == get_system_info(x)
              body == IF inv[i].health # None
                      THEN HealthBody(inv[i].health, system_info.ret)
                      ELSE GreetingBody(validated.val, inv[i].context, request_id,
                                        system_info.ret)
              dumped == IF validated.ok THEN JsonDumps(body) ELSE validated
              envelope == IF dumped.ok THEN LambdaResponse(200, dumped.val)
                          ELSE ExceptBranch(dumped, request_id).response
          IN  inv' = [inv EXCEPT ![i].pc = "done", ![i].answers = x,
                                 ![i].response = envelope]
    /\ UNCHANGED <<s3_client, ssm_client, sequential>>

\* The invocation's frame is gone; the thread can serve another invocation.
Exit(i) ==
    /\ inv[i].pc = "done"
    /\ inv' = [inv EXCEPT ![i] = Idle]
    /\ UNCHANGED <<s3_client, ssm_client, sequential>>

NextConc ==
    \E i \in Invocations :
        \/ Enter(i)
        \/ S3Test(i)
        \/ S3New(i)
        \/ SsmTest(i)
        \/ SsmNew(i)
        \/ GacReturn(i)
        \/ RunChecks(i)
        \/ Respond(i)
        \/ Exit(i)

SpecConc == Init /\ [][NextConc]_vars

(***************************************************************************)
(* Reading a returned state                                                *)
(***************************************************************************)
Returned == phase = "returned"
Body == JsonLoads(response.body).d
Validated == validated_event # None
Called(name) == \E i \in DOMAIN calls : calls[i] = name
HealthRan == health_status # None
Checks == health_status.d.checks.d
\* get_aws_clients handed back both clients: the checks were reached.
ClientsReady == env.s3_init # "raise" /\ env.ssm_init # "raise"
ProbeCalls == {"perform_health_check", "boto3.client:s3", "boto3.client:ssm",
               "s3.list_buckets", "requests.get"}
NoProbe == \A name \in ProbeCalls : ~Called(name)
\* The request id written to the start entry of the log.
LoggedRequestId == log[1].request_id

(***************************************************************************)
(* C1.  Every invocation returns an envelope: the status code is 200 or    *)
(* 500, both headers are present with their fixed values, the body is JSON *)
(* text, and no exception leaves the handler.                              *)
(***************************************************************************)
C1_AlwaysEnvelope ==
    Returned =>
        /\ raised = None
        /\ response.statusCode \in {200, 500}
        /\ DOMAIN response.headers = {"Content-Type", "Access-Control-Allow-Origin"}
        /\ response.headers["Content-Type"] = "application/json"
        /\ response.headers["Access-Control-Allow-Origin"] = "*"
        /\ IsJsonText(response.body)

\* An accepted event whose metadata json.dumps rejects came back as a 500.
C1_Witness ==
    /\ Returned
    /\ Validated
    /\ validated_event.metadata # None
    /\ ~Serializable(validated_event.metadata)
    /\ response.statusCode = 500

(***************************************************************************)
(* C2.  In every result of perform_health_check, healthy is true if and    *)
(* only if every entry of checks is "healthy".                             *)
(***************************************************************************)
C2_HealthyIffAllChecksHealthy ==
    (Returned /\ HealthRan) =>
        ((health_status.d.healthy = Bool(TRUE))
            <=> (\A k \in DOMAIN Checks : Checks[k] = Str("healthy")))

(***************************************************************************)
(* C3.  When the clients were obtained, both checks are recorded under     *)
(* their own names; a check that succeeded is recorded "healthy"; a check  *)
(* that threw or timed out is recorded as an error string and healthy is   *)
(* false.                                                                  *)
(***************************************************************************)
C3_EveryCheckRunsAndCounts ==
    (Returned /\ HealthRan /\ ClientsReady) =>
        /\ DOMAIN Checks = {"aws_s3", "external_connectivity"}
        /\ (env.list_buckets = "ok") => Checks["aws_s3"] = Str("healthy")
        /\ (env.http = HttpResponse(200)) =>
                Checks["external_connectivity"] = Str("healthy")
        /\ (env.list_buckets = "raise") =>
                /\ Checks["aws_s3"] # Str("healthy")
                /\ health_status.d.healthy = Bool(FALSE)
        /\ (env.http.r \in {"RequestException", "Exception"}) =>
                /\ Checks["external_connectivity"] # Str("healthy")
                /\ health_status.d.healthy = Bool(FALSE)

(***************************************************************************)
(* C4.  As claimed: an accepted event with operation "health" gets status  *)
(* 200 and a body whose health field has a boolean healthy and a non-empty *)
(* checks mapping, whatever client initialization and the checks did.      *)
(***************************************************************************)
HealthRequest == Validated /\ validated_event.operation = Str("health")

C4_Original ==
    (Returned /\ HealthRequest) =>
        /\ response.statusCode = 200
        /\ "health" \in DOMAIN Body
        /\ Body["health"].d.healthy.t = "bool"
        /\ DOMAIN Body["health"].d.checks.d # {}

(***************************************************************************)
(* C4, amended.  An accepted event with operation "health" gets status 200 *)
(* and a body whose health field has a boolean healthy and a checks        *)
(* mapping; checks is non-empty when client initialization succeeded, and  *)
(* when it failed checks is empty, healthy is false and error is set.      *)
(***************************************************************************)
C4_HealthBody ==
    (Returned /\ HealthRequest) =>
        /\ response.statusCode = 200
        /\ "health" \in DOMAIN Body
        /\ Body["health"] = health_status
        /\ Body["health"].d.healthy.t = "bool"
        /\ Body["health"].d.checks.t = "dict"
        /\ ClientsReady => "aws_s3" \in DOMAIN Body["health"].d.checks.d
        /\ ~ClientsReady =>
                /\ DOMAIN Body["health"].d.checks.d = {}
                /\ Body["health"].d.healthy = Bool(FALSE)
                /\ "error" \in DOMAIN Body["health"].d

\* A health request whose client initialization failed has returned.
C4_Witness ==
    /\ Returned
    /\ HealthRequest
    /\ ~ClientsReady
    /\ response.statusCode = 200

(***************************************************************************)
(* C5.  As claimed: without a context, every body carries function_name    *)
(* "lambda-test-python" and a request_id that is "local-test" or a fresh   *)
(* id, on the greeting, health and error paths alike.                      *)
(***************************************************************************)
FreshIds == {Str(u) : u \in UuidPool}

C6_MalformedMetadata ==
    (Returned /\ "metadata" \in DOMAIN event /\ ~IsDict(event["metadata"])) =>
        /\ response.statusCode = 500
        /\ Body["error"] = Str("Internal server error")
        /\ Body["request_id"] = LoggedRequestId
        /\ log[Len(log)].event = "Lambda invocation failed"
        /\ log[Len(log)].request_id = LoggedRequestId
        /\ ~Called("get_system_info")
        /\ NoProbe

(***************************************************************************)
(* C7.  An invocation with a context returns the message, function_name    *)
(* and request_id that any invocation with the same event and context      *)
(* returns, whatever the client globals earlier invocations left and       *)
(* whatever the outside world answers.                                     *)
(***************************************************************************)
Missing == [t |-> "missing"]
Get(d, k) == IF k \in DOMAIN d THEN d[k] ELSE Missing
IdemFields(r) ==
    IF r.raised # None THEN [raised |-> r.raised]
    ELSE LET b == JsonLoads(r.response.body).d
         IN  [message |-> Get(b, "message"),
              function_name |-> Get(b, "function_name"),
              request_id |-> Get(b, "request_id")]

C7_Idempotent ==
    (Returned /\ context # None) =>
        \A s3c \in {None, S3Handle}, ssmc \in {None, SsmHandle} :
            \A x \in Envs(event, context, s3c, ssmc) :
                IdemFields(lambda_handler(event, context, s3c, ssmc, x))
                    = IdemFields([response |-> response, raised |-> raised])

\* A health request with a context has returned from a run that found the
\* client globals already filled by an earlier invocation.
C7_Witness ==
    /\ Returned
    /\ context # None
    /\ HealthRequest
    /\ ClientsReady
    /\ ~Called("boto3.client:s3")
    /\ ~Called("boto3.client:ssm")

(***************************************************************************)
(* C8.  As claimed: every accepted request whose operation is not "health" *)
(* gets status 200 with message "Hello, {name}!" and the operation echoed, *)
(* never an error, and no health probe runs and no client is constructed.  *)
(***************************************************************************)
GreetingRequest == Validated /\ validated_event.operation # Str("health")

C8_Original ==
    (Returned /\ GreetingRequest) =>
        /\ response.statusCode = 200
        /\ Body["message"] = Str("Hello, " \o Format(validated_event.name) \o "!")
        /\ Body["operation"] = validated_event.operation
        /\ NoProbe

(***************************************************************************)
(* C8, amended.  Every accepted request whose operation is not "health"    *)
(* takes the greeting branch: system information is gathered, the health   *)
(* check does not run and no probe call is made; it gets status 200        *)
(* with message "Hello, {name}!" and the operation echoed whenever its     *)
(* metadata can be serialized, and the 500 error envelope otherwise.       *)
(***************************************************************************)
MetadataSerializable ==
    validated_event.metadata = None \/ Serializable(validated_event.metadata)

C8_GreetingBranch ==
    (Returned /\ GreetingRequest) =>
        /\ NoProbe
        /\ ~HealthRan
        /\ Called("get_system_info")
        /\ MetadataSerializable =>
                /\ response.statusCode = 200
                /\ Body["message"]
                       = Str("Hello, " \o Format(validated_event.name) \o "!")
                /\ Body["operation"] = validated_event.operation
        /\ ~MetadataSerializable =>
                /\ response.statusCode = 500
                /\ Body["error"] = Str("Internal server error")

\* An unrecognized operation was answered with a greeting.
C8_Witness ==
    /\ Returned
    /\ GreetingRequest
    /\ validated_event.operation = Str("status")
    /\ validated_event.name = Str("Alice")
    /\ response.statusCode = 200
    /\ Body["message"] = Str("Hello, Alice!")

(***************************************************************************)
(* C9.  After validation name and operation are strings and metadata is a  *)
(* mapping, and an event field other than these three does not appear in   *)
(* the response body.                                                      *)
(***************************************************************************)
C9_FullyPopulated ==
    (Returned /\ Validated) =>
        /\ IsStr(validated_event.name)
        /\ IsStr(validated_event.operation)
        /\ IsDict(validated_event.metadata)
        /\ DOMAIN validated_event = {"name", "operation", "metadata"}
        /\ "source" \notin DOMAIN Body

(***************************************************************************)
(* C10.  Under every interleaving: get_aws_clients hands back two handles, *)
(* neither of them None; the globals hold nothing but client handles; and  *)
(* the envelope an invocation returns is the one lambda_handler returns    *)
(* when it runs alone on the same event and context with the same answers  *)
(* from the outside world.                                                 *)
(***************************************************************************)
SysFields == {"uuid_req", "uuid_sys", "now", "sysinfo"}
ProbeFields == {"s3_init", "ssm_init", "list_buckets", "http"}
Project(r, fields) == [f \in fields |-> r[f]]

\* The answers are ones an invocation running alone can get when it finds
\* the client globals s3c and ssmc.
AnswersFit(i, s3c, ssmc) ==
    /\ Project(inv[i].answers, SysFields) \in SysAnswers(inv[i].event, inv[i].context)
    /\ Project(inv[i].answers, ProbeFields) \in ProbeAnswers(inv[i].event, s3c, ssmc)

AloneResponses(i) ==
    {lambda_handler(inv[i].event, inv[i].context, p[1], p[2], inv[i].answers).response :
        p \in {q \in {None, S3Handle} \X {None, SsmHandle} : AnswersFit(i, q[1], q[2])}}

C10_Independent ==
    /\ s3_client \in {None, S3Handle}
    /\ ssm_client \in {None, SsmHandle}
    /\ \A i \in Invocations :
          /\ inv[i].pc = "checks" => (inv[i].s3 = S3Handle /\ inv[i].ssm = SsmHandle)
          /\ inv[i].pc = "done" => inv[i].response \in AloneResponses(i)

\* Two invocations raced on first use: both found s3_client empty and both
\* constructed a client, and the one that has finished returned a 200.
C10_Witness ==
    \E i, j \in Invocations :
        /\ i # j
        /\ inv[i].pc = "done"
        /\ inv[i].answers.s3_init = "ok"
        /\ inv[i].response.statusCode = 200
        /\ inv[j].pc \notin {"idle", "s3_test", "s3_new"}
        /\ inv[j].answers.s3_init = "ok"

====
